---- MODULE Spec2Model ----
(***************************************************************************)
(* Model of the AHP criteria page (CriteriaManagement) of spk-penilaian:   *)
(* the pairwise comparison matrix, the weight derivation, the consistency  *)
(* verdict and the writes to the criteria and criteria_comparison tables.  *)
(*                                                                         *)
(* JavaScript numbers are modelled as exact fractions <<num, den>> in      *)
(* lowest terms with den > 0; the three non-finite values a division by    *)
(* zero can produce are <<1, 0>> (Infinity), <<-1, 0>> (-Infinity) and     *)
(* <<0, 0>> (NaN).  null / undefined is the empty tuple.                   *)
(***************************************************************************)
EXTENDS Integers, Sequences, FiniteSets, TLC

(* ---------------------------- bounds ----------------------------------- *)

\* number of handler calls the user makes in one behaviour (updateMatrix,
\* calculateWeights, forceUpdateWeights)
MaxCalls == 3
\* number of updateMatrix calls whose database round trips are in flight together
MaxPending == 1
\* number of fetchPairwiseValues calls in flight together
MaxFetches == 1

\* the numbers of criteria the page is opened with
CriteriaCounts == {2, 3}

(* ------------------------- JavaScript numbers -------------------------- *)

Null == << >>

Abs(x) == IF x < 0 THEN -x ELSE x

RECURSIVE GCD(_, _)
GCD(a, b) == IF b = 0 THEN a ELSE GCD(b, a % b)

\* the fraction n/d (d # 0) in lowest terms with a positive denominator
Rat(n, d) ==
    LET g == GCD(Abs(n), Abs(d))
        s == IF d < 0 THEN -1 ELSE 1
    IN  << (s * n) \div g, (s * d) \div g >>

Zero == <<0, 1>>
One == <<1, 1>>
NaN == <<0, 0>>
PosInfinity == <<1, 0>>
NegInfinity == <<-1, 0>>

IsFinite(x) == x[2] # 0

FromInt(k) == <<k, 1>>

\* x + y on finite numbers
JsAdd(x, y) ==
    LET g == GCD(x[2], y[2])
    IN  Rat(x[1] * (y[2] \div g) + y[1] * (x[2] \div g), x[2] * (y[2] \div g))

\* x - y on finite numbers
JsSub(x, y) == JsAdd(x, <<-y[1], y[2]>>)

\* x * y on finite numbers
JsMul(x, y) ==
    LET g1 == GCD(Abs(x[1]), y[2])
        g2 == GCD(Abs(y[1]), x[2])
    IN  IF x[1] = 0 \/ y[1] = 0 THEN Zero
        ELSE << (x[1] \div g1) * (y[1] \div g2), (x[2] \div g2) * (y[2] \div g1) >>

\* x / y on finite numbers; a zero divisor gives Infinity, -Infinity or NaN
JsDiv(x, y) ==
    IF y[1] = 0
    THEN IF x[1] > 0 THEN PosInfinity ELSE IF x[1] < 0 THEN NegInfinity ELSE NaN
    ELSE JsMul(x, IF y[1] < 0 THEN <<-y[2], -y[1]>> ELSE <<y[2], y[1]>>)

\* a/b <= c/d for b, d > 0, by integer parts and then by the reciprocals of
\* the fractional parts (no cross product, so no intermediate overflow)
RECURSIVE FracLeq(_, _, _, _)
FracLeq(a, b, c, d) ==
    IF a \div b # c \div d THEN a \div b < c \div d
    ELSE IF a % b = 0 THEN TRUE
    ELSE IF c % d = 0 THEN FALSE
    ELSE FracLeq(d, c % d, b, a % b)

\* x <= y; every comparison with NaN is false
JsLeq(x, y) ==
    IF x = NaN \/ y = NaN THEN FALSE
    ELSE IF x[2] = 0 THEN (x = NegInfinity \/ y = PosInfinity)
    ELSE IF y[2] = 0 THEN y = PosInfinity
    ELSE FracLeq(x[1], x[2], y[1], y[2])

(* ------------------- calculateWeights: the computation ----------------- *)

\* array.reduce((sum, x) => sum + x, 0) over the first k elements of f
RECURSIVE SumTo(_, _)
SumTo(f, k) == IF k = 0 THEN Zero ELSE JsAdd(SumTo(f, k - 1), f[k])

Sum(f) == SumTo(f, Len(f))

\* the array a map() call returns: every element computed once
Array(f) == f \o << >>

\* pairwiseMatrix.reduce((sum, r) => sum + r[i], 0)
ColumnSum(M, i) == Sum(Array([r \in 1..Len(M) |-> M[r][i]]))

\* pairwiseMatrix.map((row, i) => row.map(value => value / columnSum)),
\* where columnSum is the sum of the column whose index is the ROW index i
NormalizedMatrix(M) ==
    Array([i \in 1..Len(M) |->
              LET columnSum == ColumnSum(M, i)
              IN  Array([j \in 1..Len(M[i]) |-> JsDiv(M[i][j], columnSum)])])

\* normalizedMatrix.map(row => row.reduce(...) / row.length)
Weights(M) ==
    LET normalizedMatrix == NormalizedMatrix(M)
    IN  Array([i \in 1..Len(M) |->
                  JsDiv(Sum(normalizedMatrix[i]), FromInt(Len(normalizedMatrix[i])))])

\* weights.reduce((sum, weight, i) => sum + weightedSum / weight, 0) / criteria.length
LambdaMax(M, weights, n) ==
    JsDiv(Sum(Array([i \in 1..Len(weights) |->
                  JsDiv(Sum(Array([j \in 1..Len(M[i]) |-> JsMul(M[i][j], weights[j])])),
                        weights[i])])),
          FromInt(n))

\* (lambda - criteria.length) / (criteria.length - 1)
ConsistencyIndex(lambda, n) == JsDiv(JsSub(lambda, FromInt(n)), FromInt(n - 1))

\* [0, 0, 0.58, 0.9, 1.12, 1.24, 1.32, 1.41, 1.45, 1.49]
riValues ==
    << Zero, Zero, Rat(58, 100), Rat(9, 10), Rat(112, 100), Rat(124, 100),
       Rat(132, 100), Rat(141, 100), Rat(145, 100), Rat(149, 100) >>

\* a lookup that reads the table one entry too far to the left
RandomIndexShifted(n) == IF n <= 10 THEN riValues[IF n = 1 THEN 1 ELSE n - 1] ELSE Rat(3, 2)

\* criteria.length <= 10 ? riValues[criteria.length - 1] : 1.5
RandomIndex(n) == IF n <= 10 THEN riValues[n] ELSE Rat(3, 2)

\* cr = ci / ri
ConsistencyRatio(M, weights, n) ==
    JsDiv(ConsistencyIndex(LambdaMax(M, weights, n), n), RandomIndex(n))

\* the acceptance threshold 0.1
Threshold == Rat(1, 10)

\* a guard that saves the weights whatever the CR is
AcceptedAlways(cr) == TRUE

\* if (cr <= 0.1): the guard of the branch that saves the weights
Accepted(cr) == JsLeq(cr, Threshold)

(* --------------------------- the criteria page ------------------------- *)

\* the entries of ahpScale the user picks from: 2 and 0.5
ScaleValues == { FromInt(2), Rat(1, 2) }

Comparison(c1, c2, value) == [criteria1_id |-> c1, criteria2_id |-> c2, value |-> value]

\* contents of the criteria_comparison table when the page is opened with n
\* criteria: no row yet, or the judgments "criterion 1 is 9 times as important
\* as each other criterion" saved by an earlier visit
InitialComparisons(n) ==
    { << >>, [k \in 1..(n - 1) |-> Comparison(1, k + 1, FromInt(9))] }

VARIABLES
    criteria,          \* component state: the weight of each loaded criterion
    loading,           \* component state: fetchCriteria has not finished
    pairwiseMatrix,    \* component state: the comparison matrix
    savingMatrix,      \* component state: a weight computation is running
    consistencyRatio,  \* component state: the stored CR, or Null
    isConsistent,      \* component state: "null", "true" or "false"
    dbCriteria,        \* table criteria: the weight column, by criterion
    dbComparison,      \* table criteria_comparison: its rows, in table order
    pendingUpdates,    \* updateMatrix calls waiting for the database
    pendingFetches,    \* fetchPairwiseValues calls waiting for the database
    saveTask,          \* the running calculateWeights / forceUpdateWeights
    lastOp,            \* the handler step taken last: its arguments, the CR stored
                       \* when the handler was called, the values it computed and
                       \* the title of the toast it showed
    calls              \* number of handler calls the user has made so far

\* the state of the criteria page and of the two tables it works on
criteriaVars ==
    << criteria, loading, pairwiseMatrix, savingMatrix, consistencyRatio,
       isConsistent, dbCriteria, dbComparison, pendingUpdates, pendingFetches,
       saveTask, lastOp, calls >>

VARIABLES
    page,              \* AHPCalculation component state: calculationStep, results,
                       \* students, criteria, scores, loading, error
    dbStudents,        \* table students: the ids, in table order
    dbScores,          \* table student_scores: its rows, in table order
    dbResults,         \* table ahp_results: its rows, in table order
    checkTask,         \* the checkExistingResults call started at mount, or Null
    runTasks,          \* the calculateAHP calls in flight, with their locals
    pendingResets,     \* number of resetCalculation calls waiting for the delete
    otherSession,      \* a calculateAHP run of another session: where its
                       \* saveResults is, and how many runs it has started
    calcOp,            \* the step of the calculation page taken last: its name,
                       \* the title of the toast it showed, the rows a read returned
    clicks             \* number of button clicks on the calculation page so far

\* the state of the calculation page and of the tables only it works on
calcVars ==
    << page, dbStudents, dbScores, dbResults, checkTask, runTasks, pendingResets,
       otherSession, calcOp, clicks >>

VARIABLES
    index,             \* Index component state: user, userProfile, loading, authError
    dbProfiles,        \* table profiles: the rows of the user, and whether the
                       \* table refuses a second row with the same id
    startup,           \* the start-up of the application: the auth events
                       \* delivered, the getSession call, the fetchUserProfile
                       \* calls in flight, the reloads so far
    indexOp            \* the step of the start-up taken last: its name, the title
                       \* of its toast, and how many requests have failed so far
                       \* for a reason outside the profiles table

\* the state of the Index page and of the table only it works on
indexVars == << index, dbProfiles, startup, indexOp >>

vars == << criteriaVars, calcVars, indexVars >>

N == Len(dbCriteria)

Op(name, i, j, value, crBefore, result, toast) ==
    [name |-> name, i |-> i, j |-> j, value |-> value, crBefore |-> crBefore,
     result |-> result, toast |-> toast]

\* a step that continues a handler after an await and shows no toast
Continued(name) == Op(name, 0, 0, Null, Null, Null, "none")

RemoveAt(seq, k) == SubSeq(seq, 1, k - 1) \o SubSeq(seq, k + 1, Len(seq))

CalcOp(name, toast, data) == [name |-> name, toast |-> toast, data |-> data]

\* useState(0), useState(null), useState([]) x 3, useState(false), useState(null);
\* error is a string, "null" when it is null
InitialPage ==
    [calculationStep |-> 0, results |-> Null, students |-> << >>, criteria |-> << >>,
     scores |-> << >>, loading |-> FALSE, error |-> "null"]

\* the calculation page is not mounted and the tables it works on are empty
CalcClosed ==
    /\ page = InitialPage
    /\ dbStudents = << >>
    /\ dbScores = << >>
    /\ dbResults = << >>
    /\ checkTask = Null
    /\ runTasks = << >>
    /\ pendingResets = 0
    /\ otherSession = [pc |-> "idle", runs |-> 0]
    /\ calcOp = CalcOp("closed", "none", Null)
    /\ clicks = 0

IndexOp(name, toast, failures) == [name |-> name, toast |-> toast, failures |-> failures]

\* useState(null), useState(null), useState(true), useState(null); authError is
\* a string, "null" when it is null
InitialIndex == [user |-> Null, userProfile |-> Null, loading |-> TRUE, authError |-> "null"]

\* before the mount effect of Index has had any callback
InitialStartup == [events |-> 0, session |-> "pending", fetches |-> << >>, reloads |-> 0]

\* the start-up of the application is not followed
IndexClosed ==
    /\ index = InitialIndex
    /\ dbProfiles = [unique |-> TRUE, rows |-> << >>]
    /\ startup = InitialStartup
    /\ indexOp = IndexOp("closed", "none", 0)

Init ==
    /\ CalcClosed
    /\ IndexClosed
    /\ criteria = << >>
    /\ loading = TRUE
    /\ pairwiseMatrix = << >>
    /\ savingMatrix = FALSE
    /\ consistencyRatio = Null
    /\ isConsistent = "null"
    /\ dbCriteria \in { [c \in 1..n |-> Null] : n \in CriteriaCounts }
    /\ dbComparison \in InitialComparisons(Len(dbCriteria))
    /\ pendingUpdates = << >>
    /\ pendingFetches = << >>
    /\ saveTask = Null
    /\ lastOp = Continued("mount")
    /\ calls = 0

\* Array(size).fill(null).map(() => Array(size).fill(1))
initializeMatrix(size) == Array([i \in 1..size |-> Array([j \in 1..size |-> One])])

\* a write that leaves the mirror cell alone
SetComparisonNoMirror(M, i, j, value) == [M EXCEPT ![i][j] = value]

\* a write that copies the value into the mirror cell
SetComparisonCopy(M, i, j, value) == [M EXCEPT ![i][j] = value, ![j][i] = value]

\* newMatrix[i][j] = value; newMatrix[j][i] = 1 / value
SetComparison(M, i, j, value) ==
    [M EXCEPT ![i][j] = value, ![j][i] = JsDiv(One, value)]

\* criteria.findIndex(c => c.id === id) !== -1; a criterion's id is its position
Found(id, size) == id \in 1..size

\* data.forEach(comparison => { if (i !== -1 && j !== -1) { newMatrix[i][j] = ...;
\* newMatrix[j][i] = ... } }), from row k of data on
RECURSIVE ApplyComparisons(_, _, _, _)
ApplyComparisons(M, data, k, size) ==
    IF k > Len(data) THEN M
    ELSE IF Found(data[k].criteria1_id, size) /\ Found(data[k].criteria2_id, size)
    THEN ApplyComparisons(
             SetComparison(M, data[k].criteria1_id, data[k].criteria2_id, data[k].value),
             data, k + 1, size)
    ELSE ApplyComparisons(M, data, k + 1, size)

\* newMatrix[i][j] = ... throws a TypeError: a row of data names criteria that
\* are found, and newMatrix has no row i (or no row j)
ApplyThrows(M, data, size) ==
    \E k \in 1..Len(data) :
        /\ Found(data[k].criteria1_id, size) /\ Found(data[k].criteria2_id, size)
        /\ (data[k].criteria1_id > Len(M) \/ data[k].criteria2_id > Len(M))

\* the effect on [criteria]: initializeMatrix(), then fetchPairwiseValues()
\* started with the pairwiseMatrix of the render the effect belongs to
CriteriaEffect(size) ==
    /\ pairwiseMatrix' = initializeMatrix(size)
    /\ pendingFetches' =
           Append(pendingFetches, [closure |-> pairwiseMatrix, pc |-> "select", data |-> << >>])

\* fetchCriteria: load the criteria, which triggers the effect
FetchCriteria ==
    /\ loading
    /\ criteria' = dbCriteria
    /\ loading' = FALSE
    /\ CriteriaEffect(Len(dbCriteria))
    /\ lastOp' = Continued("fetchCriteria")
    /\ UNCHANGED << calcVars, indexVars >>
    /\ UNCHANGED << savingMatrix, consistencyRatio, isConsistent, dbCriteria,
                    dbComparison, pendingUpdates, saveTask, calls >>

\* fetchPairwiseValues: the select on criteria_comparison returns
FetchPairwiseSelect(k) ==
    /\ pendingFetches[k].pc = "select"
    /\ pendingFetches' = [pendingFetches EXCEPT ![k].pc = "apply", ![k].data = dbComparison]
    /\ lastOp' = Continued("fetchPairwiseValues.select")
    /\ UNCHANGED << calcVars, indexVars >>
    /\ UNCHANGED << criteria, loading, pairwiseMatrix, savingMatrix, consistencyRatio,
                    isConsistent, dbCriteria, dbComparison, pendingUpdates, saveTask,
                    calls >>

\* fetchPairwiseValues: the code after the await
FetchPairwiseApply(k) ==
    LET task == pendingFetches[k] IN
    /\ task.pc = "apply"
    /\ pendingFetches' = RemoveAt(pendingFetches, k)
    /\ IF Len(task.data) > 0 /\ ~ApplyThrows(task.closure, task.data, Len(criteria))
       THEN pairwiseMatrix' = ApplyComparisons(task.closure, task.data, 1, Len(criteria))
       ELSE \* no rows, or the TypeError is caught and only logged
            pairwiseMatrix' = pairwiseMatrix
    /\ lastOp' = Continued("fetchPairwiseValues")
    /\ UNCHANGED << calcVars, indexVars >>
    /\ UNCHANGED << criteria, loading, savingMatrix, consistencyRatio, isConsistent,
                    dbCriteria, dbComparison, pendingUpdates, saveTask, calls >>

\* updateMatrix(i, j, value) up to its first await, called while fewer than
\* limit earlier calls wait for the database
UpdateMatrixCall(limit, i, j, value) ==
    /\ ~loading
    /\ calls < MaxCalls
    /\ Len(pendingUpdates) < limit
    /\ i < j
    /\ pairwiseMatrix' = SetComparison(pairwiseMatrix, i, j, value)
    /\ consistencyRatio' = Null
    /\ isConsistent' = "null"
    /\ pendingUpdates' =
           Append(pendingUpdates, [i |-> i, j |-> j, value |-> value,
                                   pc |-> "select", exists |-> FALSE])
    /\ calls' = calls + 1
    /\ lastOp' = Op("updateMatrix", i, j, value, consistencyRatio, Null, "none")
    /\ UNCHANGED << calcVars, indexVars >>
    /\ UNCHANGED << criteria, loading, savingMatrix, dbCriteria, dbComparison,
                    pendingFetches, saveTask >>

\* updateMatrix(i, j, value) called when the earlier calls have returned
UpdateMatrix(i, j, value) == UpdateMatrixCall(MaxPending, i, j, value)

Matches(row, task) == row.criteria1_id = task.i /\ row.criteria2_id = task.j

\* updateMatrix: the select that checks whether the comparison exists
UpdateMatrixSelect(k) ==
    LET task == pendingUpdates[k] IN
    /\ task.pc = "select"
    /\ pendingUpdates' =
           [pendingUpdates EXCEPT ![k].pc = "write",
                ![k].exists = \E r \in 1..Len(dbComparison) : Matches(dbComparison[r], task)]
    /\ lastOp' = Continued("updateMatrix.select")
    /\ UNCHANGED << calcVars, indexVars >>
    /\ UNCHANGED << criteria, loading, pairwiseMatrix, savingMatrix, consistencyRatio,
                    isConsistent, dbCriteria, dbComparison, pendingFetches, saveTask,
                    calls >>

\* updateMatrix: update the existing rows, or insert a new row
UpdateMatrixWrite(k) ==
    LET task == pendingUpdates[k] IN
    /\ task.pc = "write"
    /\ IF task.exists
       THEN dbComparison' =
                [r \in 1..Len(dbComparison) |->
                    IF Matches(dbComparison[r], task)
                    THEN [dbComparison[r] EXCEPT !.value = task.value]
                    ELSE dbComparison[r]]
       ELSE dbComparison' =
                Append(dbComparison, Comparison(task.i, task.j, task.value))
    /\ pendingUpdates' = RemoveAt(pendingUpdates, k)
    /\ lastOp' = Continued("updateMatrix.write")
    /\ UNCHANGED << calcVars, indexVars >>
    /\ UNCHANGED << criteria, loading, pairwiseMatrix, savingMatrix, consistencyRatio,
                    isConsistent, dbCriteria, pendingFetches, saveTask, calls >>

BoolText(b) == IF b THEN "true" ELSE "false"

\* calculateWeights up to its first await (CR <= 0.1) or to its return (otherwise)
CalculateWeights ==
    LET weights == Weights(pairwiseMatrix)
        cr == ConsistencyRatio(pairwiseMatrix, weights, Len(criteria))
    IN  /\ ~loading
        /\ ~savingMatrix
        /\ calls < MaxCalls
        /\ Len(pendingFetches) < MaxFetches
        /\ consistencyRatio' = cr
        /\ isConsistent' = BoolText(JsLeq(cr, Threshold))
        /\ IF Accepted(cr)
           THEN /\ saveTask' = [kind |-> "calculateWeights", weights |-> weights,
                                cr |-> cr, next |-> 1]
                /\ savingMatrix' = TRUE
           ELSE /\ saveTask' = Null
                /\ savingMatrix' = FALSE
        /\ lastOp' = Op("calculateWeights", 0, 0, Null, consistencyRatio,
                        [weights |-> weights, cr |-> cr],
                        IF Accepted(cr) THEN "none" ELSE "Peringatan")
        /\ calls' = calls + 1
        /\ UNCHANGED << calcVars, indexVars >>
        /\ UNCHANGED << criteria, loading, pairwiseMatrix, dbCriteria, dbComparison,
                        pendingUpdates, pendingFetches >>

\* a forceUpdateWeights that never returns early
ReturnsEarlyNever(cr) == FALSE

\* if (consistencyRatio === null) return;
ReturnsEarly(cr) == cr = Null

\* forceUpdateWeights up to its first await, or to its early return
ForceUpdateWeights ==
    /\ ~loading
    /\ ~savingMatrix
    /\ calls < MaxCalls
    /\ Len(pendingFetches) < MaxFetches
    /\ IF ReturnsEarly(consistencyRatio)
       THEN UNCHANGED << saveTask, savingMatrix >>
       ELSE /\ saveTask' = [kind |-> "forceUpdateWeights",
                            weights |-> Weights(pairwiseMatrix),
                            cr |-> consistencyRatio, next |-> 1]
            /\ savingMatrix' = TRUE
    /\ calls' = calls + 1
    /\ lastOp' = Op("forceUpdateWeights", 0, 0, Null, consistencyRatio, Null, "none")
    /\ UNCHANGED << calcVars, indexVars >>
    /\ UNCHANGED << criteria, loading, pairwiseMatrix, consistencyRatio, isConsistent,
                    dbCriteria, dbComparison, pendingUpdates, pendingFetches >>

\* one iteration of: for (const criterion of updatedCriteria) await ...update({ weight })
SaveWeight ==
    /\ saveTask # Null
    /\ saveTask.next <= Len(saveTask.weights)
    /\ dbCriteria' = [dbCriteria EXCEPT ![saveTask.next] = saveTask.weights[saveTask.next]]
    /\ saveTask' = [saveTask EXCEPT !.next = @ + 1]
    /\ lastOp' = Continued(saveTask.kind \o ".update")
    /\ UNCHANGED << calcVars, indexVars >>
    /\ UNCHANGED << criteria, loading, pairwiseMatrix, savingMatrix, consistencyRatio,
                    isConsistent, dbComparison, pendingUpdates, pendingFetches, calls >>

\* after the loop: setCriteria(updatedCriteria), the finally setSavingMatrix(false)
FinishSave ==
    /\ saveTask # Null
    /\ saveTask.next > Len(saveTask.weights)
    /\ criteria' = saveTask.weights
    /\ CriteriaEffect(Len(criteria))
    /\ savingMatrix' = FALSE
    /\ saveTask' = Null
    /\ lastOp' = Op(saveTask.kind \o ".done", 0, 0, Null, saveTask.cr, Null,
                    IF saveTask.kind = "calculateWeights"
                    THEN "Perhitungan Berhasil" ELSE "Bobot Tersimpan")
    /\ UNCHANGED << calcVars, indexVars >>
    /\ UNCHANGED << loading, consistencyRatio, isConsistent, dbCriteria, dbComparison,
                    pendingUpdates, calls >>

Next ==
    \/ FetchCriteria
    \/ \E k \in 1..Len(pendingFetches) : FetchPairwiseSelect(k)
    \/ \E k \in 1..Len(pendingFetches) : FetchPairwiseApply(k)
    \/ \E i \in 1..N, j \in 1..N, value \in ScaleValues : UpdateMatrix(i, j, value)
    \/ \E k \in 1..Len(pendingUpdates) : UpdateMatrixSelect(k)
    \/ \E k \in 1..Len(pendingUpdates) : UpdateMatrixWrite(k)
    \/ CalculateWeights
    \/ ForceUpdateWeights
    \/ SaveWeight
    \/ FinishSave

Spec == Init /\ [][Next]_vars

(* ------------- the criteria page: updateMatrix calls that overlap ------- *)

\* updateMatrix calls that may wait for the database at the same time: the
\* selects of the matrix stay enabled while a call is running
MaxOverlap == 2

\* the page opened on an empty criteria_comparison table
InitOverlap ==
    /\ Init
    /\ dbComparison = << >>

NextOverlap ==
    \/ Next
    \/ \E i \in 1..N, j \in 1..N, value \in ScaleValues :
           UpdateMatrixCall(MaxOverlap, i, j, value)

SpecOverlap == InitOverlap /\ [][NextOverlap]_vars

\* contents of the criteria_comparison table that the page did not write itself:
\* a judgment with a negative value, which fetchPairwiseValues copies into the
\* matrix as it copies any other value
InvalidComparisons == { << Comparison(1, 2, FromInt(-2)) >> }

\* the page opened on two criteria and a table that holds an invalid judgment
InitInvalid ==
    /\ IndexClosed
    /\ CalcClosed
    /\ criteria = << >>
    /\ loading = TRUE
    /\ pairwiseMatrix = << >>
    /\ savingMatrix = FALSE
    /\ consistencyRatio = Null
    /\ isConsistent = "null"
    /\ dbCriteria = << Null, Null >>
    /\ dbComparison \in InvalidComparisons
    /\ pendingUpdates = << >>
    /\ pendingFetches = << >>
    /\ saveTask = Null
    /\ lastOp = Continued("mount")
    /\ calls = 0

SpecInvalid == InitInvalid /\ [][Next]_vars

(* ------------------ the calculation page: stored data ------------------ *)

\* number of clicks on "Mulai Perhitungan" and "Hitung Ulang" in one behaviour
MaxClicks == 2
\* number of calculation runs another session makes in one behaviour
MaxOtherRuns == 1

StudentScore(s, c, value) ==
    [student_id |-> s, criteria_id |-> c, score |-> FromInt(value)]

\* the weight column of the criteria table when the calculation page is opened:
\* two weighted criteria, no weight computed yet, one criterion still unweighted
StoredWeights ==
    { << Rat(3, 5), Rat(2, 5) >>, << Null, Null >>, << Rat(3, 5), Null >> }

\* the students table: empty, or two or three students
StoredStudents == { << >>, << 1, 2 >>, << 1, 2, 3 >> }

\* the student_scores table: complete scores, equal scores for students 1 and 3,
\* only zeros for criterion 2, no score for criterion 2, a single score, no score
ScoreTables ==
    { << StudentScore(1, 1, 80), StudentScore(1, 2, 60),
         StudentScore(2, 1, 100), StudentScore(2, 2, 100) >>,
      << StudentScore(1, 1, 50), StudentScore(1, 2, 50),
         StudentScore(2, 1, 100), StudentScore(2, 2, 100),
         StudentScore(3, 1, 50), StudentScore(3, 2, 50) >>,
      << StudentScore(1, 1, 80), StudentScore(1, 2, 0),
         StudentScore(2, 1, 100), StudentScore(2, 2, 0) >>,
      << StudentScore(1, 1, 80), StudentScore(2, 1, 100) >>,
      << StudentScore(1, 1, 80) >>,
      << >> }

Ids(seq) == { seq[k] : k \in 1..Len(seq) }

\* a row of student_scores belongs to a row of students
ScoresOf(table, studentIds) ==
    SelectSeq(table, LAMBDA row : row.student_id \in Ids(studentIds))

\* the id of a row of ahp_results (generated on insert; run tells the insert
\* that made the row), and the id calculateAHP gives a displayed result
RowId(run, s) == [temp |-> FALSE, run |-> run, student_id |-> s]
TempId(s) == [temp |-> TRUE, run |-> 0, student_id |-> s]

\* the rows an earlier calculation run left in ahp_results
EarlierResults(studentIds) ==
    [k \in 1..Len(studentIds) |->
        [id |-> RowId(0, studentIds[k]), student_id |-> studentIds[k],
         final_score |-> Rat(1, k + 1), rank |-> k]]

(* ---------------- the calculation page: the computation ---------------- *)

\* x < y; every comparison with NaN is false
JsLt(x, y) == x # NaN /\ y # NaN /\ ~JsLeq(y, x)

\* Math.max(x, y)
JsMax(x, y) == IF JsLeq(x, y) THEN y ELSE x

\* Math.max(...xs) over the first k elements of xs
RECURSIVE MaxOf(_, _)
MaxOf(xs, k) == IF k = 0 THEN NegInfinity ELSE JsMax(MaxOf(xs, k - 1), xs[k])

\* a filter that takes every criterion as weighted
HasWeightAlways(weight) == TRUE

\* c.weight !== null && c.weight !== undefined && c.weight > 0
HasWeight(weight) == weight # Null /\ JsLt(Zero, weight)

\* a check of the scores that lets every run pass
TooFewScoresNever(loadedStudents, loadedCriteria, loadedScores) == FALSE

\* availableScores < totalRequiredScores * 0.5
TooFewScores(loadedStudents, loadedCriteria, loadedScores) ==
    JsLt(FromInt(Len(loadedScores)),
         JsMul(FromInt(Len(loadedStudents) * Len(loadedCriteria)), Rat(1, 2)))

\* loadedScores.filter(s => s.criteria_id === criterion.id).map(s => s.score)
CriteriaScores(loadedScores, c) ==
    LET criteriaScores == SelectSeq(loadedScores, LAMBDA s : s.criteria_id = c)
    IN  Array([k \in 1..Len(criteriaScores) |-> criteriaScores[k].score])

\* a maximum that is used as it is, without the lower limit 1
MaxScoreNoFloor(loadedScores, c) ==
    LET criteriaScores == CriteriaScores(loadedScores, c)
    IN  IF Len(criteriaScores) > 0
        THEN MaxOf(criteriaScores, Len(criteriaScores)) ELSE FromInt(100)

\* maxScores[criterion.id]: the maximum of the recorded scores, or 100 when the
\* criterion has none, and then Math.max(maxScore, 1)
MaxScore(loadedScores, c) ==
    LET criteriaScores == CriteriaScores(loadedScores, c)
        maxScore == IF Len(criteriaScores) > 0
                    THEN MaxOf(criteriaScores, Len(criteriaScores)) ELSE FromInt(100)
    IN  JsMax(maxScore, One)

MaxScores(loadedCriteria, loadedScores) ==
    Array([c \in 1..Len(loadedCriteria) |-> MaxScore(loadedScores, c)])

\* loadedScores.find(s => s.student_id === student.id && s.criteria_id === criterion.id)
RECURSIVE FindScore(_, _, _, _)
FindScore(loadedScores, s, c, k) ==
    IF k > Len(loadedScores) THEN Null
    ELSE IF loadedScores[k].student_id = s /\ loadedScores[k].criteria_id = c
    THEN loadedScores[k]
    ELSE FindScore(loadedScores, s, c, k + 1)

\* a missing score that counts as the full score 100
RawScoreFull(loadedScores, s, c) ==
    LET score == FindScore(loadedScores, s, c, 1)
    IN  IF score # Null THEN score.score ELSE FromInt(100)

\* score ? score.score : 0
RawScore(loadedScores, s, c) ==
    LET score == FindScore(loadedScores, s, c, 1)
    IN  IF score # Null THEN score.score ELSE Zero

\* criterion.weight || 0
WeightOrZero(weight) ==
    IF weight = Null \/ weight = Zero \/ weight = NaN THEN Zero ELSE weight

\* a weighted score that leaves the normalization out
WeightedScoreRaw(loadedCriteria, loadedScores, maxScores, s, c) ==
    JsMul(RawScore(loadedScores, s, c), WeightOrZero(loadedCriteria[c]))

\* (rawScore / maxScores[criterion.id]) * (criterion.weight || 0)
WeightedScore(loadedCriteria, loadedScores, maxScores, s, c) ==
    JsMul(JsDiv(RawScore(loadedScores, s, c), maxScores[c]),
          WeightOrZero(loadedCriteria[c]))

\* ahpScore after the first k criteria: ahpScore += weightedScore
RECURSIVE AhpScoreTo(_, _, _, _, _)
AhpScoreTo(loadedCriteria, loadedScores, maxScores, s, k) ==
    IF k = 0 THEN Zero
    ELSE JsAdd(AhpScoreTo(loadedCriteria, loadedScores, maxScores, s, k - 1),
               WeightedScore(loadedCriteria, loadedScores, maxScores, s, k))

\* loadedStudents.map(student => ({ student, studentScores, ahpScore, rank: 0 }))
AhpResults(loadedCriteria, loadedStudents, loadedScores, maxScores) ==
    Array([k \in 1..Len(loadedStudents) |->
        [student |-> loadedStudents[k],
         studentScores |->
             Array([c \in 1..Len(loadedCriteria) |->
                       RawScore(loadedScores, loadedStudents[k], c)]),
         ahpScore |-> AhpScoreTo(loadedCriteria, loadedScores, maxScores,
                                 loadedStudents[k], Len(loadedCriteria)),
         rank |-> 0]])

\* the comparator (a, b) => b.ahpScore - a.ahpScore
Compare(a, b) == JsSub(b.ahpScore, a.ahpScore)

\* a placement that also moves an element before the elements it is equal to
BeforeOrEqual(a, b) == Compare(a, b)[1] <= 0

\* a is placed before b: the comparator returns a negative number
Before(a, b) == Compare(a, b)[1] < 0

\* x put into the sorted array at the first place from k on where it belongs
RECURSIVE Insert(_, _, _)
Insert(sorted, x, k) ==
    IF k > Len(sorted) THEN Append(sorted, x)
    ELSE IF Before(x, sorted[k])
    THEN SubSeq(sorted, 1, k - 1) \o << x >> \o SubSeq(sorted, k, Len(sorted))
    ELSE Insert(sorted, x, k + 1)

\* ahpResults.sort(comparator) on the first k elements: Array.prototype.sort is
\* stable, elements the comparator calls equal keep their order
RECURSIVE SortTo(_, _)
SortTo(ahpResults, k) ==
    IF k = 0 THEN << >> ELSE Insert(SortTo(ahpResults, k - 1), ahpResults[k], 1)

\* ahpResults.forEach((result, index) => { result.rank = index + 1 })
AssignRanks(ahpResults) ==
    Array([k \in 1..Len(ahpResults) |-> [ahpResults[k] EXCEPT !.rank = k]])

\* the try block of calculateAHP from maxScores to the ranks
Ranking(loadedCriteria, loadedStudents, loadedScores) ==
    LET maxScores == MaxScores(loadedCriteria, loadedScores)
        ahpResults == AhpResults(loadedCriteria, loadedStudents, loadedScores, maxScores)
    IN  AssignRanks(SortTo(ahpResults, Len(ahpResults)))

\* resultsToInsert, as the rows the insert of run makes of them
ResultsToInsert(ahpResults, run) ==
    Array([k \in 1..Len(ahpResults) |->
        [id |-> RowId(run, ahpResults[k].student), student_id |-> ahpResults[k].student,
         final_score |-> ahpResults[k].ahpScore, rank |-> ahpResults[k].rank]])

\* a calculateAHP that shows no ranking
FormattedResultsEmpty(ahpResults) == << >>

\* formattedResults of calculateAHP
FormattedResults(ahpResults) ==
    Array([k \in 1..Len(ahpResults) |->
        [id |-> TempId(ahpResults[k].student), student_id |-> ahpResults[k].student,
         final_score |-> ahpResults[k].ahpScore, rank |-> ahpResults[k].rank,
         criteriaScores |-> ahpResults[k].studentScores]])

\* row put into rows, which are ordered by rank, behind the rows of its rank
RECURSIVE InsertByRank(_, _, _)
InsertByRank(rows, row, k) ==
    IF k > Len(rows) THEN Append(rows, row)
    ELSE IF row.rank < rows[k].rank
    THEN SubSeq(rows, 1, k - 1) \o << row >> \o SubSeq(rows, k, Len(rows))
    ELSE InsertByRank(rows, row, k + 1)

\* select ... from ahp_results ... .order('rank'), on the first k rows of the table
RECURSIVE OrderByRank(_, _)
OrderByRank(rows, k) ==
    IF k = 0 THEN << >> ELSE InsertByRank(OrderByRank(rows, k - 1), rows[k], 1)

\* criteriaScores[score.criteria_id] = score.score for the rows of student s, in
\* table order; Null for a criterion without a row
RECURSIVE ScoreOfStudent(_, _, _, _)
ScoreOfStudent(studentScores, s, c, k) ==
    IF k = 0 THEN Null
    ELSE IF studentScores[k].student_id = s /\ studentScores[k].criteria_id = c
    THEN studentScores[k].score
    ELSE ScoreOfStudent(studentScores, s, c, k - 1)

\* formattedResults of checkExistingResults: the rows whose student exists
ExistingResults(data, studentIds, criteriaCount, studentScores) ==
    LET found == SelectSeq(data, LAMBDA result : result.student_id \in Ids(studentIds))
    IN  Array([k \in 1..Len(found) |->
            [id |-> found[k].id, student_id |-> found[k].student_id,
             final_score |-> found[k].final_score, rank |-> found[k].rank,
             criteriaScores |->
                 Array([c \in 1..criteriaCount |->
                           ScoreOfStudent(studentScores, found[k].student_id, c,
                                          Len(studentScores))])]])

(* ------------------ the calculation page: the handlers ----------------- *)

\* the calculation page mounted on the stored data; the criteria page is closed
InitCalc ==
    /\ IndexClosed
    /\ criteria = << >>
    /\ loading = TRUE
    /\ pairwiseMatrix = << >>
    /\ savingMatrix = FALSE
    /\ consistencyRatio = Null
    /\ isConsistent = "null"
    /\ dbCriteria \in StoredWeights
    /\ dbComparison = << >>
    /\ pendingUpdates = << >>
    /\ pendingFetches = << >>
    /\ saveTask = Null
    /\ lastOp = Continued("closed")
    /\ calls = 0
    /\ page = InitialPage
    /\ dbStudents \in StoredStudents
    /\ dbScores \in { ScoresOf(table, dbStudents) : table \in ScoreTables }
    /\ dbResults \in { << >>, EarlierResults(dbStudents) }
    /\ checkTask = [pc |-> "select", data |-> << >>]
    /\ runTasks = << >>
    /\ pendingResets = 0
    /\ otherSession = [pc |-> "idle", runs |-> 0]
    /\ calcOp = CalcOp("mount", "none", Null)
    /\ clicks = 0

\* checkExistingResults: the select on ahp_results returns
CheckExistingSelect(ok) ==
    /\ checkTask # Null
    /\ checkTask.pc = "select"
    /\ IF ok /\ Len(dbResults) > 0
       THEN checkTask' = [pc |-> "set", data |-> OrderByRank(dbResults, Len(dbResults))]
       ELSE \* the error is logged, or there is no row: return
            checkTask' = Null
    /\ calcOp' = CalcOp("checkExistingResults.select", "none", Null)
    /\ UNCHANGED << page, dbStudents, dbScores, dbResults, runTasks, pendingResets,
                    otherSession, clicks >>
    /\ UNCHANGED << criteriaVars, indexVars >>

\* checkExistingResults: after the loop over the rows, setResults and
\* setCalculationStep(3)
CheckExistingSet ==
    /\ checkTask # Null
    /\ checkTask.pc = "set"
    /\ page' = [page EXCEPT
                   !.results = ExistingResults(checkTask.data, dbStudents,
                                               Len(dbCriteria), dbScores),
                   !.calculationStep = 3]
    /\ checkTask' = Null
    /\ calcOp' = CalcOp("checkExistingResults", "none", Null)
    /\ UNCHANGED << dbStudents, dbScores, dbResults, runTasks, pendingResets,
                    otherSession, clicks >>
    /\ UNCHANGED << criteriaVars, indexVars >>

\* a click on "Mulai Perhitungan" (rendered at step 0, disabled while loading):
\* calculateAHP calls loadData, which runs up to its first await
CalculateAHP ==
    /\ page.calculationStep = 0
    /\ ~page.loading
    /\ clicks < MaxClicks
    /\ page' = [page EXCEPT !.loading = TRUE, !.error = "null"]
    /\ runTasks' =
           Append(runTasks,
                  [pc |-> "criteria", run |-> clicks + 1, criteria |-> << >>,
                   students |-> << >>, scores |-> << >>, maxScores |-> << >>,
                   ahpResults |-> << >>])
    /\ clicks' = clicks + 1
    /\ calcOp' = CalcOp("calculateAHP", "none", Null)
    /\ UNCHANGED << dbStudents, dbScores, dbResults, checkTask, pendingResets,
                    otherSession >>
    /\ UNCHANGED << criteriaVars, indexVars >>

\* loadData ends without data: setError, the toast, setLoading(false), and
\* calculateAHP returns
Refuse(k, name, toast, message) ==
    /\ page' = [page EXCEPT !.error = message, !.loading = FALSE]
    /\ runTasks' = RemoveAt(runTasks, k)
    /\ calcOp' = CalcOp(name, toast, Null)

\* loadData: the select on criteria returns
LoadCriteria(k, ok) ==
    LET criteriaData == dbCriteria
        criteriaWithWeights == SelectSeq(criteriaData, HasWeight)
    IN  /\ runTasks[k].pc = "criteria"
        /\ IF ~ok
           THEN Refuse(k, "loadData.error", "Error", "Gagal memuat data")
           ELSE IF Len(criteriaWithWeights) = 0
           THEN Refuse(k, "loadData.refused", "Peringatan", "Bobot kriteria belum dihitung")
           ELSE /\ runTasks' = [runTasks EXCEPT ![k].pc = "students",
                                                ![k].criteria = criteriaData]
                /\ calcOp' = CalcOp("loadData.criteria", "none", Null)
                /\ page' = page
        /\ UNCHANGED << dbStudents, dbScores, dbResults, checkTask, pendingResets,
                        otherSession, clicks >>
        /\ UNCHANGED << criteriaVars, indexVars >>

\* loadData: the select on students returns
LoadStudents(k, ok) ==
    LET studentsData == dbStudents
    IN  /\ runTasks[k].pc = "students"
        /\ IF ~ok
           THEN Refuse(k, "loadData.error", "Error", "Gagal memuat data")
           ELSE IF Len(studentsData) = 0
           THEN Refuse(k, "loadData.refused", "Peringatan", "Belum ada data siswa")
           ELSE /\ runTasks' = [runTasks EXCEPT ![k].pc = "scores",
                                                ![k].students = studentsData]
                /\ calcOp' = CalcOp("loadData.students", "none", Null)
                /\ page' = page
        /\ UNCHANGED << dbStudents, dbScores, dbResults, checkTask, pendingResets,
                        otherSession, clicks >>
        /\ UNCHANGED << criteriaVars, indexVars >>

\* loadData: the select on student_scores returns; with enough scores loadData
\* returns the data and calculateAHP goes on to setCalculationStep(1)
LoadScores(k, ok) ==
    LET scoresData == dbScores
    IN  /\ runTasks[k].pc = "scores"
        /\ IF ~ok
           THEN Refuse(k, "loadData.error", "Error", "Gagal memuat data")
           ELSE IF TooFewScores(runTasks[k].students, runTasks[k].criteria, scoresData)
           THEN Refuse(k, "loadData.refused", "Peringatan",
                       "Diperlukan lebih banyak data nilai siswa")
           ELSE /\ runTasks' = [runTasks EXCEPT ![k].pc = "timer1",
                                                ![k].scores = scoresData]
                /\ calcOp' = CalcOp("loadData", "none", Null)
                /\ page' = [page EXCEPT !.loading = FALSE, !.calculationStep = 1]
        /\ UNCHANGED << dbStudents, dbScores, dbResults, checkTask, pendingResets,
                        otherSession, clicks >>
        /\ UNCHANGED << criteriaVars, indexVars >>

\* calculateAHP after the first delay: setCalculationStep(2), maxScores, the
\* scores of the students, the sort and the ranks
ComputeRanking(k) ==
    LET task == runTasks[k]
        maxScores == MaxScores(task.criteria, task.scores)
        ahpResults == AhpResults(task.criteria, task.students, task.scores, maxScores)
    IN  /\ task.pc = "timer1"
        /\ page' = [page EXCEPT !.calculationStep = 2]
        /\ runTasks' =
               [runTasks EXCEPT
                   ![k].pc = "timer2",
                   ![k].maxScores = maxScores,
                   ![k].ahpResults = AssignRanks(SortTo(ahpResults, Len(ahpResults)))]
        /\ calcOp' = CalcOp("calculateAHP.compute", "none", Null)
        /\ UNCHANGED << dbStudents, dbScores, dbResults, checkTask, pendingResets,
                        otherSession, clicks >>
        /\ UNCHANGED << criteriaVars, indexVars >>

\* calculateAHP after the first delay when a statement of the computation
\* throws (Math.max(...) over more score rows than a call takes arguments, for
\* one): setCalculationStep(2), then the catch block: setError, the toast
\* "Error", setCalculationStep(0)
ComputeThrows(k) ==
    /\ runTasks[k].pc = "timer1"
    /\ page' = [page EXCEPT !.error = "Gagal menghitung AHP", !.calculationStep = 0]
    /\ runTasks' = RemoveAt(runTasks, k)
    /\ calcOp' = CalcOp("calculateAHP.error", "Error", Null)
    /\ UNCHANGED << dbStudents, dbScores, dbResults, checkTask, pendingResets,
                    otherSession, clicks >>
    /\ UNCHANGED << criteriaVars, indexVars >>

\* calculateAHP after the second delay: setCalculationStep(3), and saveResults
\* sends its delete
StartSave(k) ==
    /\ runTasks[k].pc = "timer2"
    /\ page' = [page EXCEPT !.calculationStep = 3]
    /\ runTasks' = [runTasks EXCEPT ![k].pc = "delete"]
    /\ calcOp' = CalcOp("calculateAHP.step3", "none", Null)
    /\ UNCHANGED << dbStudents, dbScores, dbResults, checkTask, pendingResets,
                    otherSession, clicks >>
    /\ UNCHANGED << criteriaVars, indexVars >>

\* the table after delete().neq('id', ...): empty, or as it was when the
\* request fails
Deleted(rows, ok) == IF ok THEN << >> ELSE rows

\* saveResults: the delete returns (an error is only logged) and the insert is sent
SaveDelete(k, ok) ==
    /\ runTasks[k].pc = "delete"
    /\ dbResults' = Deleted(dbResults, ok)
    /\ runTasks' = [runTasks EXCEPT ![k].pc = "insert"]
    /\ calcOp' = CalcOp("saveResults.delete", "none", Null)
    /\ UNCHANGED << page, dbStudents, dbScores, checkTask, pendingResets,
                    otherSession, clicks >>
    /\ UNCHANGED << criteriaVars, indexVars >>

\* saveResults: the insert returns (an error becomes the warning toast); then
\* calculateAHP sets criteria, students, scores and results
SaveInsert(k, ok) ==
    LET task == runTasks[k]
    IN  /\ task.pc = "insert"
        /\ dbResults' = IF ok THEN dbResults \o ResultsToInsert(task.ahpResults, task.run)
                        ELSE dbResults
        /\ page' = [page EXCEPT !.criteria = task.criteria,
                                !.students = task.students,
                                !.scores = task.scores,
                                !.results = FormattedResults(task.ahpResults)]
        /\ runTasks' = RemoveAt(runTasks, k)
        /\ calcOp' = CalcOp("calculateAHP.done",
                            IF ok THEN "Perhitungan Selesai" ELSE "Peringatan",
                            [run |-> task.run, inserted |-> ok])
        /\ UNCHANGED << dbStudents, dbScores, checkTask, pendingResets, otherSession,
                        clicks >>
        /\ UNCHANGED << criteriaVars, indexVars >>

\* one of the two buttons that call resetCalculation is rendered
ResetOffered ==
    \/ page.results # Null /\ Len(page.results) > 0
    \/ page.calculationStep = 3 /\ (page.results = Null \/ Len(page.results) = 0)

\* a click on "Hitung Ulang" or "Reset dan Coba Lagi": resetCalculation sends
\* its delete
ResetCalculation ==
    /\ ResetOffered
    /\ clicks < MaxClicks
    /\ pendingResets' = pendingResets + 1
    /\ clicks' = clicks + 1
    /\ calcOp' = CalcOp("resetCalculation", "none", Null)
    /\ UNCHANGED << page, dbStudents, dbScores, dbResults, checkTask, runTasks,
                    otherSession >>
    /\ UNCHANGED << criteriaVars, indexVars >>

\* resetCalculation: the delete returns (an error is only logged), the state is
\* cleared and the toast is shown
ResetDelete(ok) ==
    /\ pendingResets > 0
    /\ dbResults' = Deleted(dbResults, ok)
    /\ page' = [page EXCEPT !.calculationStep = 0, !.results = Null, !.error = "null",
                            !.students = << >>, !.criteria = << >>, !.scores = << >>]
    /\ pendingResets' = pendingResets - 1
    /\ calcOp' = CalcOp("resetCalculation.done", "Reset Berhasil", [deleted |-> ok])
    /\ UNCHANGED << dbStudents, dbScores, checkTask, runTasks, otherSession, clicks >>
    /\ UNCHANGED << criteriaVars, indexVars >>

\* loadData of another session would return the data
OtherSessionLoads ==
    /\ Len(SelectSeq(dbCriteria, HasWeight)) > 0
    /\ Len(dbStudents) > 0
    /\ ~TooFewScores(dbStudents, dbCriteria, dbScores)

\* saveResults of a run in another session: its delete
OtherSessionDelete(ok) ==
    /\ otherSession.pc = "idle"
    /\ otherSession.runs < MaxOtherRuns
    /\ OtherSessionLoads
    /\ dbResults' = Deleted(dbResults, ok)
    /\ otherSession' = [pc |-> "insert", runs |-> otherSession.runs + 1]
    /\ calcOp' = CalcOp("otherSession.delete", "none", Null)
    /\ UNCHANGED << page, dbStudents, dbScores, checkTask, runTasks, pendingResets,
                    clicks >>
    /\ UNCHANGED << criteriaVars, indexVars >>

\* saveResults of a run in another session: its insert
OtherSessionInsert(ok) ==
    /\ otherSession.pc = "insert"
    /\ dbResults' =
           IF ok
           THEN dbResults \o
                ResultsToInsert(Ranking(dbCriteria, dbStudents, dbScores),
                                -otherSession.runs)
           ELSE dbResults
    /\ otherSession' = [otherSession EXCEPT !.pc = "idle"]
    /\ calcOp' = CalcOp("otherSession.insert", "none", Null)
    /\ UNCHANGED << page, dbStudents, dbScores, checkTask, runTasks, pendingResets,
                    clicks >>
    /\ UNCHANGED << criteriaVars, indexVars >>

\* RankingResults.fetchResults: the select on ahp_results returns its rows
FetchResults ==
    /\ calcOp' = CalcOp("fetchResults", "none", OrderByRank(dbResults, Len(dbResults)))
    /\ UNCHANGED << page, dbStudents, dbScores, dbResults, checkTask, runTasks,
                    pendingResets, otherSession, clicks >>
    /\ UNCHANGED << criteriaVars, indexVars >>

NextCalc ==
    \/ \E ok \in BOOLEAN : CheckExistingSelect(ok)
    \/ CheckExistingSet
    \/ CalculateAHP
    \/ \E k \in 1..Len(runTasks), ok \in BOOLEAN : LoadCriteria(k, ok)
    \/ \E k \in 1..Len(runTasks), ok \in BOOLEAN : LoadStudents(k, ok)
    \/ \E k \in 1..Len(runTasks), ok \in BOOLEAN : LoadScores(k, ok)
    \/ \E k \in 1..Len(runTasks) : ComputeRanking(k)
    \/ \E k \in 1..Len(runTasks) : ComputeThrows(k)
    \/ \E k \in 1..Len(runTasks) : StartSave(k)
    \/ \E k \in 1..Len(runTasks), ok \in BOOLEAN : SaveDelete(k, ok)
    \/ \E k \in 1..Len(runTasks), ok \in BOOLEAN : SaveInsert(k, ok)
    \/ ResetCalculation
    \/ \E ok \in BOOLEAN : ResetDelete(ok)
    \/ \E ok \in BOOLEAN : OtherSessionDelete(ok)
    \/ \E ok \in BOOLEAN : OtherSessionInsert(ok)
    \/ FetchResults

SpecCalc == InitCalc /\ [][NextCalc]_vars

(* ------------------- the Index page: application start-up -------------- *)

\* auth events the listener receives during one start-up
MaxAuthEvents == 1

\* clicks on "Coba Lagi"
MaxReloads == 1

\* the id of the signed-in user
UserId == 1

\* session.user
SessionUser == [id |-> UserId]

Profile(id, username, role) == [id |-> id, username |-> username, role |-> role]

\* user?.email || 'User' in fetchUserProfile and createUserProfile: both are the
\* functions of the first render, in which user is null
UsernameOrDefault == "User"

\* the ways a request to the profiles table ends: with its result, with an
\* error in the response, or with an exception
Outcomes == {"ok", "error", "throws"}

\* what Index renders
Shown ==
    IF index.loading THEN "loading"
    ELSE IF index.authError # "null" THEN "error"
    ELSE IF index.user = Null \/ index.userProfile = Null THEN "login"
    ELSE "dashboard"

\* a signed-in user without a profile row opens the application; the other
\* pages are closed
InitIndex ==
    /\ CalcClosed
    /\ criteria = << >>
    /\ loading = TRUE
    /\ pairwiseMatrix = << >>
    /\ savingMatrix = FALSE
    /\ consistencyRatio = Null
    /\ isConsistent = "null"
    /\ dbCriteria = << >>
    /\ dbComparison = << >>
    /\ pendingUpdates = << >>
    /\ pendingFetches = << >>
    /\ saveTask = Null
    /\ lastOp = Continued("closed")
    /\ calls = 0
    /\ index = InitialIndex
    /\ dbProfiles \in { [unique |-> unique, rows |-> << >>] : unique \in BOOLEAN }
    /\ startup = InitialStartup
    /\ indexOp = IndexOp("mount", "none", 0)

\* fetchUserProfile(userId) up to its await: setAuthError(null), and the select
\* is sent
CallFetchUserProfile(state) == [state EXCEPT !.authError = "null"]

NewFetch == [pc |-> "select", detached |-> FALSE]

\* the callback of onAuthStateChange with the session of the user: setUser and
\* fetchUserProfile
AuthStateChange ==
    /\ startup.events < MaxAuthEvents
    /\ index' = CallFetchUserProfile([index EXCEPT !.user = SessionUser])
    /\ startup' = [startup EXCEPT !.events = @ + 1, !.fetches = Append(@, NewFetch)]
    /\ indexOp' = IndexOp("onAuthStateChange", "none", indexOp.failures)
    /\ UNCHANGED dbProfiles
    /\ UNCHANGED << criteriaVars, calcVars >>

\* getSession().then(...): the error branch, or setUser and fetchUserProfile;
\* then setLoading(false)
GetSession(ok) ==
    /\ startup.session = "pending"
    /\ IF ok
       THEN /\ index' = [CallFetchUserProfile([index EXCEPT !.user = SessionUser])
                            EXCEPT !.loading = FALSE]
            /\ startup' = [startup EXCEPT !.session = "done",
                                          !.fetches = Append(@, NewFetch)]
            /\ indexOp' = IndexOp("getSession", "none", indexOp.failures)
       ELSE /\ index' = [index EXCEPT
                            !.authError = "Terjadi kesalahan saat memverifikasi sesi login",
                            !.loading = FALSE]
            /\ startup' = [startup EXCEPT !.session = "done"]
            /\ indexOp' = IndexOp("getSession", "Error", indexOp.failures + 1)
    /\ UNCHANGED dbProfiles
    /\ UNCHANGED << criteriaVars, calcVars >>

\* the rows .eq('id', userId) selects
RowsOfUser == SelectSeq(dbProfiles.rows, LAMBDA row : row.id = UserId)

\* a task of the page before the reload has no component to write to
Write(task, state) == IF task.detached THEN index ELSE state

\* fetchUserProfile after its select with maybeSingle(): no row gives data
\* null, one row gives the row, several rows give the error PGRST116
FetchUserProfile(k, outcome) ==
    LET task == startup.fetches[k]
        data == RowsOfUser
    IN  /\ task.pc = "select"
        /\ CASE outcome = "throws" ->
                 /\ index' = Write(task, [index EXCEPT
                                  !.authError = "Terjadi kesalahan saat memuat profil"])
                 /\ startup' = [startup EXCEPT !.fetches = RemoveAt(@, k)]
                 /\ indexOp' = IndexOp("fetchUserProfile.throws", "none",
                                       indexOp.failures + 1)
             [] outcome = "error" ->
                 /\ index' = Write(task, [index EXCEPT
                                  !.authError = "Gagal memuat profil pengguna"])
                 /\ startup' = [startup EXCEPT !.fetches = RemoveAt(@, k)]
                 /\ indexOp' = IndexOp("fetchUserProfile.error", "none",
                                       indexOp.failures + 1)
             [] outcome = "ok" /\ Len(data) = 1 ->
                 /\ index' = Write(task, [index EXCEPT !.userProfile =
                                  [username |-> data[1].username, role |-> data[1].role]])
                 /\ startup' = [startup EXCEPT !.fetches = RemoveAt(@, k)]
                 /\ indexOp' = IndexOp("fetchUserProfile", "none", indexOp.failures)
             [] OTHER ->
                 \* no data, or PGRST116: createUserProfile sends its insert
                 /\ index' = index
                 /\ startup' = [startup EXCEPT !.fetches[k].pc = "insert"]
                 /\ indexOp' = IndexOp("fetchUserProfile.create", "none",
                                       indexOp.failures)
        /\ UNCHANGED dbProfiles
        /\ UNCHANGED << criteriaVars, calcVars >>

\* the table refuses the row: a row with this id exists and id is unique
Refused(row) == dbProfiles.unique /\ \E r \in 1..Len(dbProfiles.rows) :
                                        dbProfiles.rows[r].id = row.id

\* createUserProfile after its insert
CreateUserProfile(k, outcome) ==
    LET task == startup.fetches[k]
        newProfile == Profile(UserId, UsernameOrDefault, "user")
    IN  /\ task.pc = "insert"
        /\ CASE outcome = "throws" ->
                 /\ index' = Write(task, [index EXCEPT
                                  !.authError = "Terjadi kesalahan saat membuat profil"])
                 /\ dbProfiles' = dbProfiles
                 /\ indexOp' = IndexOp("createUserProfile.throws", "none",
                                       indexOp.failures + 1)
             [] outcome = "error" \/ (outcome = "ok" /\ Refused(newProfile)) ->
                 /\ index' = Write(task, [index EXCEPT
                                  !.authError = "Gagal membuat profil pengguna"])
                 /\ dbProfiles' = dbProfiles
                 /\ indexOp' = IndexOp("createUserProfile.error", "none",
                                       indexOp.failures +
                                           IF outcome = "error" THEN 1 ELSE 0)
             [] OTHER ->
                 /\ index' = Write(task, [index EXCEPT !.userProfile =
                                  [username |-> newProfile.username,
                                   role |-> newProfile.role]])
                 /\ dbProfiles' = [dbProfiles EXCEPT !.rows = Append(@, newProfile)]
                 /\ indexOp' = IndexOp("createUserProfile", "none", indexOp.failures)
        /\ startup' = [startup EXCEPT !.fetches = RemoveAt(@, k)]
        /\ UNCHANGED << criteriaVars, calcVars >>

\* the inserts already sent, which the database still carries out
SentInserts ==
    LET sent == SelectSeq(startup.fetches, LAMBDA task : task.pc = "insert")
    IN  [k \in 1..Len(sent) |-> [sent[k] EXCEPT !.detached = TRUE]]

\* a click on "Coba Lagi": setAuthError(null) and window.location.reload()
Reload ==
    /\ Shown = "error"
    /\ startup.reloads < MaxReloads
    /\ index' = InitialIndex
    /\ startup' = [events |-> 0, session |-> "pending", fetches |-> SentInserts,
                   reloads |-> startup.reloads + 1]
    /\ indexOp' = IndexOp("reload", "none", indexOp.failures)
    /\ UNCHANGED dbProfiles
    /\ UNCHANGED << criteriaVars, calcVars >>

NextIndex ==
    \/ AuthStateChange
    \/ \E ok \in BOOLEAN : GetSession(ok)
    \/ \E k \in 1..Len(startup.fetches), outcome \in Outcomes : FetchUserProfile(k, outcome)
    \/ \E k \in 1..Len(startup.fetches), outcome \in Outcomes : CreateUserProfile(k, outcome)
    \/ Reload

SpecIndex == InitIndex /\ [][NextIndex]_vars

TypeOK ==
    /\ loading \in BOOLEAN
    /\ savingMatrix \in BOOLEAN
    /\ isConsistent \in {"null", "true", "false"}
    /\ calls \in 0..MaxCalls

(* ------------------------------ properties ----------------------------- *)

\* the state right after the synchronous part of calculateWeights: the matrix
\* is the one it read, lastOp.result holds the weights and the CR it computed
AfterCalculateWeights == lastOp.name = "calculateWeights"

\* x > y; every comparison with NaN is false
JsGt(x, y) == x # NaN /\ y # NaN /\ ~JsLeq(x, y)

\* an n x n matrix of positive entries with unit diagonal and reciprocal mirror cells
IsReciprocalMatrix(M, n) ==
    /\ Len(M) = n
    /\ \A i \in 1..n : Len(M[i]) = n
    /\ \A i \in 1..n : \A j \in 1..n :
        /\ IsFinite(M[i][j]) /\ M[i][j][1] > 0
        /\ (i = j => M[i][j] = One)
        /\ JsMul(M[i][j], M[j][i]) = One

\* M[i][k] = M[i][j] * M[j][k] for all i, j, k: M[i][j] = w_i / w_j for some w
IsPerfectlyConsistent(M) ==
    \A i \in 1..Len(M) : \A j \in 1..Len(M) : \A k \in 1..Len(M) :
        M[i][k] = JsMul(M[i][j], M[j][k])

\* C1: for every positive reciprocal matrix with unit diagonal, the weights
\* calculateWeights computes sum to 1.
C1_WeightsSumToOne ==
    (AfterCalculateWeights /\ IsReciprocalMatrix(pairwiseMatrix, Len(criteria)))
        => Sum(lastOp.result.weights) = One

\* C2: the normalized entry at row i, column j is M[i][j] divided by the sum of
\* column j, and weight[i] is the mean of row i of that normalized matrix.
C2_ColumnNormalized ==
    AfterCalculateWeights =>
        \A i \in 1..Len(pairwiseMatrix) :
            /\ \A j \in 1..Len(pairwiseMatrix) :
                NormalizedMatrix(pairwiseMatrix)[i][j] =
                    JsDiv(pairwiseMatrix[i][j], ColumnSum(pairwiseMatrix, j))
            /\ lastOp.result.weights[i] =
                   JsDiv(Sum([j \in 1..Len(pairwiseMatrix) |->
                                 JsDiv(pairwiseMatrix[i][j], ColumnSum(pairwiseMatrix, j))]),
                         FromInt(Len(pairwiseMatrix)))

\* C3: for a perfectly consistent matrix of three or more criteria,
\* calculateWeights yields CR = 0 and isConsistent = true.
C3_ConsistentMatrixHasZeroCR ==
    (AfterCalculateWeights /\ Len(pairwiseMatrix) >= 3
        /\ IsPerfectlyConsistent(pairwiseMatrix))
        => (consistencyRatio = Zero /\ isConsistent = "true")

\* C4: for two criteria calculateWeights yields CR = 0 and isConsistent = true,
\* whatever the off-diagonal value.
C4_TwoCriteriaAlwaysConsistent ==
    (AfterCalculateWeights /\ Len(pairwiseMatrix) = 2)
        => (consistencyRatio = Zero /\ isConsistent = "true")

\* the scenario matrix: M[1,2] = 9, M[1,3] = 9, M[2,3] = 1 and mirror cells
ScenarioMatrix ==
    << << One, FromInt(9), FromInt(9) >>,
       << Rat(1, 9), One, One >>,
       << Rat(1, 9), One, One >> >>

\* C5: for the scenario matrix, weight[1] > weight[2] = weight[3] and the CR is
\* at most 0.10, so isConsistent = true.
C5_ScenarioDominance ==
    (AfterCalculateWeights /\ pairwiseMatrix = ScenarioMatrix)
        => /\ JsGt(lastOp.result.weights[1], lastOp.result.weights[2])
           /\ lastOp.result.weights[2] = lastOp.result.weights[3]
           /\ JsLeq(consistencyRatio, Threshold)
           /\ isConsistent = "true"

\* C6: updateMatrix(i, j, v) with i # j sets M[i][j] = v and M[j][i] = 1/v in the
\* same step and clears consistencyRatio and isConsistent, whatever they were.
C6_UpdateMatrixMirrorsAndClears ==
    lastOp.name = "updateMatrix" =>
        /\ lastOp.i # lastOp.j
        /\ pairwiseMatrix[lastOp.i][lastOp.j] = lastOp.value
        /\ JsMul(pairwiseMatrix[lastOp.j][lastOp.i], lastOp.value) = One
        /\ consistencyRatio = Null
        /\ isConsistent = "null"

\* an updateMatrix call has just replaced a cell while a verdict was stored
C6_Witness ==
    /\ lastOp.name = "updateMatrix"
    /\ lastOp.crBefore # Null
    /\ pairwiseMatrix[lastOp.i][lastOp.j] # One

\* C7: once the matrix is initialized, under any sequence of initializeMatrix,
\* fetchPairwiseValues and updateMatrix, the matrix in the component state is
\* N x N with positive entries, unit diagonal and reciprocal mirror cells.
C7_MatrixStaysReciprocal ==
    ~loading => IsReciprocalMatrix(pairwiseMatrix, Len(criteria))

\* stored judgments were loaded into the matrix and a cell was edited on top
C7_Witness ==
    /\ ~loading
    /\ Len(pairwiseMatrix) = 3
    /\ pairwiseMatrix[1][2] = FromInt(9)
    /\ pairwiseMatrix[2][3] = FromInt(2)

\* C8: calculateWeights sets isConsistent = true and writes the weights to the
\* criteria table only when CR <= 0.10; otherwise (CR > 0.10 or not a number)
\* it sets isConsistent = false, shows the warning and leaves the stored
\* weights unchanged.
C8_Step ==
    /\ lastOp'.name = "calculateWeights" =>
        /\ dbCriteria' = dbCriteria
        /\ isConsistent' = BoolText(JsLeq(lastOp'.result.cr, Threshold))
        /\ consistencyRatio' = lastOp'.result.cr
        /\ IF JsLeq(lastOp'.result.cr, Threshold)
           THEN saveTask' # Null /\ saveTask'.weights = lastOp'.result.weights
           ELSE saveTask' = Null /\ lastOp'.toast = "Peringatan"
    /\ dbCriteria' # dbCriteria =>
        /\ saveTask # Null
        /\ saveTask.kind = "calculateWeights" => JsLeq(saveTask.cr, Threshold)
        /\ dbCriteria' =
               [dbCriteria EXCEPT ![saveTask.next] = saveTask.weights[saveTask.next]]

C8_SavesOnlyWhenConsistent == [][C8_Step]_vars

\* calculateWeights has just rejected a matrix while the table holds the
\* weights an earlier, accepted computation wrote
C8_Witness ==
    /\ AfterCalculateWeights
    /\ isConsistent = "false"
    /\ lastOp.toast = "Peringatan"
    /\ \A c \in 1..Len(dbCriteria) : dbCriteria[c] # Null

\* C9: with CR > 0.10, forceUpdateWeights stores a weight vector that sums to 1.
C9_OverrideStoresNormalizedWeights ==
    (lastOp.name = "forceUpdateWeights.done" /\ JsGt(lastOp.crBefore, Threshold))
        => Sum(dbCriteria) = One

\* C10: every weight written to the criteria table lies in [0, 1].
C10_StoredWeightsInUnitInterval ==
    \A c \in 1..Len(dbCriteria) :
        dbCriteria[c] # Null => (JsLeq(Zero, dbCriteria[c]) /\ JsLeq(dbCriteria[c], One))

\* C11: a matrix that is not square, not reciprocal or holds a zero or negative
\* entry is rejected before the computation: calculateWeights computes no
\* weights and no verdict for it and starts no write to the criteria table.
C11_InvalidMatrixRejected ==
    (AfterCalculateWeights /\ ~IsReciprocalMatrix(pairwiseMatrix, Len(criteria)))
        => /\ lastOp.result = Null
           /\ consistencyRatio = lastOp.crBefore
           /\ saveTask = Null

\* the length of the Random Index table the claim states, plus two sizes beyond it
MaxCriteria == 12

\* the Random Index the specification states for n criteria
StatedRandomIndex(n) ==
    CASE n = 1 -> Zero
      [] n = 2 -> Zero
      [] n = 3 -> Rat(58, 100)
      [] n = 4 -> Rat(9, 10)
      [] n = 5 -> Rat(112, 100)
      [] n = 6 -> Rat(124, 100)
      [] n = 7 -> Rat(132, 100)
      [] n = 8 -> Rat(141, 100)
      [] n = 9 -> Rat(145, 100)
      [] n = 10 -> Rat(149, 100)
      [] OTHER -> Rat(3, 2)

\* C12: the Random Index calculateWeights uses for N criteria is the table value
\* for N (0, 0, 0.58, 0.9, 1.12, 1.24, 1.32, 1.41, 1.45, 1.49 for N = 1..10) and
\* 1.5 for every N > 10; the CR it stores is its CI divided by that value.
C12_RandomIndexTable ==
    /\ \A n \in 1..MaxCriteria : RandomIndex(n) = StatedRandomIndex(n)
    /\ AfterCalculateWeights =>
           lastOp.result.cr =
               JsDiv(ConsistencyIndex(LambdaMax(pairwiseMatrix, lastOp.result.weights,
                                                Len(criteria)), Len(criteria)),
                     StatedRandomIndex(Len(criteria)))

\* calculateWeights has just divided the CI of three criteria by 0.58
C12_Witness ==
    /\ AfterCalculateWeights
    /\ Len(criteria) = 3
    /\ IsFinite(consistencyRatio)
    /\ consistencyRatio # Zero

(* ------------------ properties of the calculation page ----------------- *)

\* the calculateAHP runs that hold a computed ranking
RankedRuns == { k \in 1..Len(runTasks) : runTasks[k].pc \in {"timer2", "delete", "insert"} }

PositionIn(seq, x) == CHOOSE k \in 1..Len(seq) : seq[k] = x

\* C13: the ranking calculateAHP computes holds every loaded student exactly
\* once, gives the ranks 1..K in order, has non-increasing final scores as the
\* rank grows and keeps students of equal final score in the order they were loaded.
C13_RankingIsStablePermutation ==
    \A k \in RankedRuns :
        LET ranking == runTasks[k].ahpResults
            loadedStudents == runTasks[k].students
        IN  /\ Len(ranking) = Len(loadedStudents)
            /\ \A s \in Ids(loadedStudents) :
                   Cardinality({ r \in 1..Len(ranking) : ranking[r].student = s }) = 1
            /\ \A r \in 1..Len(ranking) : ranking[r].rank = r
            /\ \A r \in 1..(Len(ranking) - 1) :
                   JsLeq(ranking[r + 1].ahpScore, ranking[r].ahpScore)
            /\ \A q \in 1..Len(ranking) : \A r \in 1..Len(ranking) :
                   (q < r /\ ranking[q].ahpScore = ranking[r].ahpScore)
                       => PositionIn(loadedStudents, ranking[q].student)
                              < PositionIn(loadedStudents, ranking[r].student)

\* a ranking that moved student 2 to the top and left students 1 and 3, whose
\* final scores are equal, in their order
C13_Witness ==
    \E k \in RankedRuns :
        LET ranking == runTasks[k].ahpResults
        IN  /\ Len(ranking) = 3
            /\ ranking[1].student = 2 /\ ranking[2].student = 1 /\ ranking[3].student = 3
            /\ ranking[2].ahpScore = ranking[3].ahpScore
            /\ JsGt(ranking[1].ahpScore, ranking[2].ahpScore)

\* the recorded raw score of student s for criterion c, 0 when there is none
StatedRawScore(loadedScores, s, c) ==
    LET rows == { r \in 1..Len(loadedScores) :
                     loadedScores[r].student_id = s /\ loadedScores[r].criteria_id = c }
    IN  IF rows = {} THEN Zero ELSE loadedScores[CHOOSE r \in rows : TRUE].score

\* sum over the criteria of (rawScore / maxScore) x weight
StatedFinalScore(task, s) ==
    Sum([c \in 1..Len(task.criteria) |->
            JsMul(JsDiv(StatedRawScore(task.scores, s, c), task.maxScores[c]),
                  task.criteria[c])])

\* the example: weights 0.6 and 0.4, scores (80, 60) and (100, 100)
ExampleRun(task) ==
    /\ task.criteria = << Rat(3, 5), Rat(2, 5) >>
    /\ task.students = << 1, 2 >>
    /\ task.scores = << StudentScore(1, 1, 80), StudentScore(1, 2, 60),
                        StudentScore(2, 1, 100), StudentScore(2, 2, 100) >>

\* C14: the final score of every student is the sum over the criteria of
\* (rawScore / maxScore) x weight, a missing score counting as 0; for weights
\* 0.6 and 0.4 and scores (80, 60), (100, 100) the final scores are 0.72 and 1.0
\* and the ranks 2 and 1.
C14_FinalScoreIsWeightedSum ==
    \A k \in RankedRuns :
        LET task == runTasks[k]
        IN  /\ (\A c \in 1..Len(task.criteria) : task.criteria[c] # Null) =>
                   \A r \in 1..Len(task.ahpResults) :
                       task.ahpResults[r].ahpScore =
                           StatedFinalScore(task, task.ahpResults[r].student)
            /\ ExampleRun(task) =>
                   /\ task.ahpResults[1].student = 2
                   /\ task.ahpResults[1].ahpScore = One
                   /\ task.ahpResults[1].rank = 1
                   /\ task.ahpResults[2].student = 1
                   /\ task.ahpResults[2].ahpScore = Rat(72, 100)
                   /\ task.ahpResults[2].rank = 2

\* the example has been computed
C14_Witness ==
    \E k \in RankedRuns :
        /\ ExampleRun(runTasks[k])
        /\ runTasks[k].ahpResults[2].ahpScore = Rat(18, 25)

\* the recorded scores of criterion c
RecordedScores(loadedScores, c) ==
    { loadedScores[r].score : r \in { q \in 1..Len(loadedScores) :
                                         loadedScores[q].criteria_id = c } }

\* C15: maxScore[c] is 100 when no score is recorded for c, otherwise the
\* maximum recorded score of c raised to 1 when it is below 1; it is never
\* less than 1.
C15_MaxScoreDefaultAndFloor ==
    \A k \in RankedRuns :
        \A c \in 1..Len(runTasks[k].criteria) :
            LET recorded == RecordedScores(runTasks[k].scores, c)
                maxScore == runTasks[k].maxScores[c]
            IN  /\ JsLeq(One, maxScore)
                /\ recorded = {} => maxScore = FromInt(100)
                /\ recorded # {} =>
                       LET top == CHOOSE x \in recorded : \A y \in recorded : JsLeq(y, x)
                       IN  maxScore = IF JsLeq(One, top) THEN top ELSE One

\* a run whose second criterion has only zeros recorded: its maximum was raised to 1
C15_Witness ==
    \E k \in RankedRuns :
        /\ RecordedScores(runTasks[k].scores, 2) = { Zero }
        /\ runTasks[k].maxScores[2] = One
        /\ runTasks[k].maxScores[1] = FromInt(100)

\* student s has a recorded score that is positive for a criterion whose weight
\* is positive
HasPositiveContribution(task, s) ==
    \E r \in 1..Len(task.scores) :
        /\ task.scores[r].student_id = s
        /\ JsGt(task.scores[r].score, Zero)
        /\ task.criteria[task.scores[r].criteria_id] # Null
        /\ JsGt(task.criteria[task.scores[r].criteria_id], Zero)

\* C16: with non-negative scores and weights, a student without any recorded
\* score has final score 0 and a rank that is not better than the rank of any
\* student with a positive weighted contribution.
C16_UnscoredStudentRanksLast ==
    \A k \in RankedRuns :
        LET task == runTasks[k]
        IN  \A r \in 1..Len(task.ahpResults) :
                (\A q \in 1..Len(task.scores) :
                     task.scores[q].student_id # task.ahpResults[r].student)
                => /\ task.ahpResults[r].ahpScore = Zero
                   /\ \A p \in 1..Len(task.ahpResults) :
                          HasPositiveContribution(task, task.ahpResults[p].student)
                              => task.ahpResults[p].rank <= task.ahpResults[r].rank

\* student 3 has no score and is ranked third behind two students with
\* positive final scores
C16_Witness ==
    \E k \in RankedRuns :
        LET task == runTasks[k]
        IN  /\ Len(task.ahpResults) = 3
            /\ \A q \in 1..Len(task.scores) : task.scores[q].student_id # 3
            /\ task.ahpResults[3].student = 3
            /\ JsGt(task.ahpResults[2].ahpScore, Zero)

\* at least half of the student x criterion cells have a score
HalfPopulated(studentIds, criteriaCount, studentScores) ==
    2 * Cardinality({ << studentScores[r].student_id, studentScores[r].criteria_id >> :
                         r \in 1..Len(studentScores) })
        >= Len(studentIds) * criteriaCount

\* C17: calculateAHP refuses to run when no criterion has a positive weight, no
\* student exists or fewer than half of the score cells are populated: it sets
\* an error, computes no ranking, and changes neither the wizard step (0 when
\* the button was clicked), nor the displayed results, nor the stored results.
C17_Step ==
    /\ calcOp'.name = "calculateAHP" => page.calculationStep = 0
    /\ calcOp'.name \in {"calculateAHP", "loadData.criteria", "loadData.students",
                         "loadData.refused"}
           => /\ page'.calculationStep = page.calculationStep
              /\ page'.results = page.results
              /\ dbResults' = dbResults
    /\ calcOp'.name = "loadData.refused"
           => /\ page'.error # "null"
              /\ Len(runTasks') = Len(runTasks) - 1
              /\ \A k \in 1..Len(runTasks') : runTasks'[k].pc # "timer1" \/
                     \E q \in 1..Len(runTasks) : runTasks[q] = runTasks'[k]
    /\ calcOp'.name = "loadData"
           => /\ \E c \in 1..Len(dbCriteria) :
                     dbCriteria[c] # Null /\ JsGt(dbCriteria[c], Zero)
              /\ Len(dbStudents) > 0
              /\ HalfPopulated(dbStudents, Len(dbCriteria), dbScores)

C18_UnresolvedWeightFlagged ==
    \A k \in 1..Len(runTasks) :
        runTasks[k].pc \in {"timer1", "timer2", "delete", "insert"}
            => \A c \in 1..Len(runTasks[k].criteria) : runTasks[k].criteria[c] # Null

\* C19: after a run whose insert succeeded the stored result set is the ranking
\* of that run, one row per ranked student and no row of an earlier run, also
\* when the delete reported an error.
C19_SaveReplacesResults ==
    (calcOp.name = "calculateAHP.done" /\ calcOp.data.inserted)
        => /\ Len(dbResults) = Len(page.results)
           /\ \A r \in 1..Len(dbResults) :
                  /\ dbResults[r].id.run = calcOp.data.run
                  /\ dbResults[r].student_id = page.results[r].student_id
                  /\ dbResults[r].final_score = page.results[r].final_score
                  /\ dbResults[r].rank = page.results[r].rank

\* rows that are the snapshot of one run: all inserted by the same run, one
\* for every student
SingleRunSnapshot(rows) ==
    /\ \A q \in 1..Len(rows) : \A r \in 1..Len(rows) : rows[q].id.run = rows[r].id.run
    /\ Len(rows) = Len(dbStudents)
    /\ { rows[r].student_id : r \in 1..Len(rows) } = Ids(dbStudents)

\* C20: a reader of the stored results always finds the snapshot of a single
\* run: where rows were stored, the delete of a save does not leave an empty
\* table for it, and it never reads rows of two runs together.
C20_Step ==
    /\ (calcOp'.name \in {"saveResults.delete", "otherSession.delete"} /\ Len(dbResults) > 0)
           => Len(dbResults') > 0
    /\ (calcOp'.name = "fetchResults" /\ Len(calcOp'.data) > 0)
           => SingleRunSnapshot(calcOp'.data)

C20_ReaderSeesSingleRun == [][C20_Step]_vars

\* results shows the ranking ahpResults, entry by entry
ShowsRanking(results, ahpResults) ==
    /\ results # Null
    /\ Len(results) = Len(ahpResults)
    /\ \A k \in 1..Len(ahpResults) :
           /\ results[k].student_id = ahpResults[k].student
           /\ results[k].final_score = ahpResults[k].ahpScore
           /\ results[k].rank = ahpResults[k].rank
           /\ results[k].criteriaScores = ahpResults[k].studentScores

C21_Step ==
    \* the ranking a run holds is the one computed from its data, and no step
    \* changes it while the run goes on
    /\ \A k \in 1..Len(runTasks), m \in 1..Len(runTasks') :
           runTasks'[m].run = runTasks[k].run =>
               IF runTasks[k].pc = "timer1" /\ runTasks'[m].pc = "timer2"
               THEN runTasks'[m].ahpResults =
                        Ranking(runTasks[k].criteria, runTasks[k].students,
                                runTasks[k].scores)
               ELSE runTasks'[m].ahpResults = runTasks[k].ahpResults
    \* the run sets step 3 before it saves, and no step of its saveResults
    \* changes the step
    /\ calcOp'.name = "calculateAHP.step3" => page'.calculationStep = 3
    /\ calcOp'.name = "saveResults.delete" =>
           page'.calculationStep = page.calculationStep
    \* the failed insert: warning toast, ranking displayed, step and store untouched
    /\ (calcOp'.name = "calculateAHP.done" /\ ~calcOp'.data.inserted) =>
           /\ calcOp'.toast = "Peringatan"
           /\ \E k \in 1..Len(runTasks) :
                  /\ runTasks[k].run = calcOp'.data.run
                  /\ runTasks[k].pc = "insert"
                  /\ ShowsRanking(page'.results, runTasks[k].ahpResults)
           /\ page'.calculationStep = page.calculationStep
           /\ page'.error = page.error
           /\ dbResults' = dbResults

C22_Step ==
    \* the verdict is null until a calculateWeights, and again after an updateMatrix
    /\ (consistencyRatio = Null /\ consistencyRatio' # Null) =>
           lastOp'.name = "calculateWeights"
    /\ lastOp'.name = "updateMatrix" => consistencyRatio' = Null
    \* forceUpdateWeights called without a verdict starts no save
    /\ (lastOp'.name = "forceUpdateWeights" /\ consistencyRatio = Null) =>
           /\ saveTask' = saveTask
           /\ savingMatrix' = savingMatrix
           /\ dbCriteria' = dbCriteria
           /\ criteria' = criteria
    \* a stored weight changes only in a save that was started on a verdict
    /\ dbCriteria' # dbCriteria => (saveTask # Null /\ saveTask.cr # Null)

\* C22: forceUpdateWeights changes no stored weight when consistencyRatio is
\* null, which it is before the first calculateWeights and after any
\* updateMatrix that followed the last calculateWeights
C22_ForceNeedsVerdict == [][C22_Step]_vars

\* forceUpdateWeights was called after an updateMatrix had cleared the verdict
\* of an earlier calculateWeights, whose weights are the stored ones
C22_Witness ==
    /\ lastOp.name = "forceUpdateWeights"
    /\ lastOp.crBefore = Null
    /\ saveTask = Null
    /\ \A c \in 1..N : dbCriteria[c] # Null
    /\ dbCriteria = criteria

\* the order in which a calculateAHP run passes its awaits
RunOrder ==
    { << "criteria", "students" >>, << "students", "scores" >>, << "scores", "timer1" >>,
      << "timer1", "timer2" >>, << "timer2", "delete" >>, << "delete", "insert" >> }

\* the step a run leaves behind when it arrives at pc, step being the one before
StepAt(pc, step) ==
    CASE pc = "timer1" -> 1
      [] pc = "timer2" -> 2
      [] pc = "delete" -> 3
      [] OTHER -> step

C23_Step ==
    /\ page.calculationStep \in 0..3
    /\ page'.calculationStep \in 0..3
    \* a run starts at step 0, passes its awaits in order and writes 1, 2, 3
    /\ calcOp'.name = "calculateAHP" =>
           /\ page.calculationStep = 0
           /\ page'.calculationStep = 0
           /\ runTasks'[Len(runTasks')].pc = "criteria"
    /\ \A k \in 1..Len(runTasks), m \in 1..Len(runTasks') :
           (runTasks'[m].run = runTasks[k].run /\ runTasks'[m].pc # runTasks[k].pc) =>
               /\ << runTasks[k].pc, runTasks'[m].pc >> \in RunOrder
               /\ page'.calculationStep = StepAt(runTasks'[m].pc, page.calculationStep)
    \* step 1: the data are loaded and pass the checks of loadData
    /\ calcOp'.name = "loadData" =>
           \E m \in 1..Len(runTasks') :
               /\ runTasks'[m].pc = "timer1"
               /\ runTasks'[m].criteria = dbCriteria
               /\ runTasks'[m].students = dbStudents
               /\ runTasks'[m].scores = dbScores
               /\ \E c \in 1..Len(dbCriteria) :
                      dbCriteria[c] # Null /\ JsGt(dbCriteria[c], Zero)
               /\ Len(dbStudents) > 0
               /\ 2 * Len(dbScores) >= Len(dbStudents) * Len(dbCriteria)
    \* step 3: the ranking is computed
    /\ calcOp'.name = "calculateAHP.step3" =>
           \E m \in 1..Len(runTasks') :
               /\ runTasks'[m].pc = "delete"
               /\ Len(runTasks'[m].ahpResults) = Len(runTasks'[m].students)
               /\ \A r \in 1..Len(runTasks'[m].ahpResults) :
                      runTasks'[m].ahpResults[r].rank = r
    \* an exception in the computation: back to step 0, with the error shown
    /\ calcOp'.name = "calculateAHP.error" =>
           /\ page'.calculationStep = 0
           /\ page'.error # "null"
           /\ calcOp'.toast = "Error"
           /\ Len(runTasks') = Len(runTasks) - 1
    \* only these steps, the checkExistingResults of the mount (to 3) and
    \* resetCalculation (to 0) change the step
    /\ page'.calculationStep # page.calculationStep =>
           \/ calcOp'.name \in {"loadData", "calculateAHP.compute", "calculateAHP.step3",
                                "calculateAHP.error"}
           \/ calcOp'.name = "checkExistingResults" /\ page'.calculationStep = 3
           \/ calcOp'.name = "resetCalculation.done" /\ page'.calculationStep = 0

\* C23: the wizard step is one of 0, 1, 2, 3; a calculateAHP run starts at
\* step 0 and sets 1, then 2, then 3 in this order: 1 only when all data are
\* loaded and pass the checks, 3 only when the ranking is computed, and an
\* exception during the computation sets the step back to 0
C23_StepOrder == [][C23_Step]_vars

\* a run has gone through the steps 1 and 2 and stands at step 3 with its
\* ranking computed, no other operation being in flight
C23_Witness ==
    /\ Len(runTasks) = 1
    /\ runTasks[1].pc = "delete"
    /\ Len(runTasks[1].ahpResults) > 1
    /\ page.calculationStep = 3
    /\ calcOp.name = "calculateAHP.step3"
    /\ checkTask = Null
    /\ pendingResets = 0

\* C24: when the page is opened on stored comparisons, then once loading has
\* finished (the criteria are set, the fetchPairwiseValues of the mount has
\* returned, the user has done nothing yet) the matrix holds every stored value
\* at [i][j] and its reciprocal at [j][i]
C24_StoredJudgmentsLoaded ==
    (~loading /\ pendingFetches = << >> /\ calls = 0) =>
        \A r \in 1..Len(dbComparison) :
            LET i == dbComparison[r].criteria1_id
                j == dbComparison[r].criteria2_id
            IN  /\ pairwiseMatrix[i][j] = dbComparison[r].value
                /\ pairwiseMatrix[j][i] = JsDiv(One, dbComparison[r].value)

\* C25: a verdict that is not null is the verdict of the matrix in memory:
\* consistencyRatio is the CR calculateWeights computes from pairwiseMatrix, and
\* isConsistent tells whether it is at most 0.1
C25_VerdictOfCurrentMatrix ==
    consistencyRatio # Null =>
        LET cr == ConsistencyRatio(pairwiseMatrix, Weights(pairwiseMatrix), Len(criteria))
        IN  /\ consistencyRatio = cr
            /\ isConsistent = BoolText(JsLeq(cr, Threshold))

\* the rows of criteria_comparison for the pair (i, j)
RowsOf(i, j) ==
    SelectSeq(dbComparison, LAMBDA row : row.criteria1_id = i /\ row.criteria2_id = j)

\* C26: on a table that only updateMatrix has written, once every updateMatrix
\* call has completed (and no save has re-initialized the matrix) a pair has at
\* most one row, and the row of a pair holds the value of the matrix cell,
\* which is the value of the last call for the pair
C26_OneRowPerPair ==
    (/\ ~loading
     /\ pendingUpdates = << >>
     /\ pendingFetches = << >>
     /\ saveTask = Null
     /\ \A c \in 1..Len(criteria) : criteria[c] = Null) =>
        \A i \in 1..N, j \in 1..N :
            /\ Len(RowsOf(i, j)) <= 1
            /\ Len(RowsOf(i, j)) = 1 => RowsOf(i, j)[1].value = pairwiseMatrix[i][j]

\* no checkExistingResults, calculateAHP or resetCalculation is between two of
\* its awaits
NothingInFlight == checkTask = Null /\ runTasks = << >> /\ pendingResets = 0

\* C27: the displayed results are not null only while the step is 3, and at
\* step 3 with no operation in flight they are not null
C27_ResultsOnlyAtStepThree ==
    /\ page.results # Null => page.calculationStep = 3
    /\ (page.calculationStep = 3 /\ NothingInFlight) => page.results # Null

\* the displayed results are the ranking of a calculateAHP run that completed
\* on this page (only calculateAHP gives its entries the ids temp-...)
ShowsCompletedRun ==
    /\ page.results # Null
    /\ Len(page.results) > 0
    /\ \A k \in 1..Len(page.results) : page.results[k].id.temp

\* two result lists give the same students the same ranks and final scores
SameRanking(a, b) ==
    /\ a # Null
    /\ b # Null
    /\ Len(a) = Len(b)
    /\ \A k \in 1..Len(a) :
           /\ a[k].student_id = b[k].student_id
           /\ a[k].rank = b[k].rank
           /\ a[k].final_score = b[k].final_score

C28_Step ==
    /\ calcOp'.name = "calculateAHP.done" =>
           \E k \in 1..Len(runTasks) :
               /\ runTasks[k].run = calcOp'.data.run
               /\ ShowsRanking(page'.results, runTasks[k].ahpResults)
    \* the ranking of a completed run is displayed and is the stored one: the
    \* end of checkExistingResults leaves this ranking displayed
    /\ (/\ ShowsCompletedRun
        /\ SameRanking(OrderByRank(dbResults, Len(dbResults)), page.results)
        /\ calcOp'.name = "checkExistingResults") =>
           SameRanking(page'.results, page.results)

\* C28: when a calculateAHP run completes, the displayed results are its
\* ranking, and no step of the checkExistingResults started at mount replaces
\* the displayed ranking of a completed run
C28_MountCheckKeepsRunResults == [][C28_Step]_vars

\* C29: when resetCalculation has reported success (the toast "Reset
\* Berhasil"), the step is 0, results and error are null, students, criteria and
\* scores are empty, and ahp_results is empty
C29_ResetClearsEverything ==
    calcOp.name = "resetCalculation.done" =>
        /\ calcOp.toast = "Reset Berhasil"
        /\ page.calculationStep = 0
        /\ page.results = Null
        /\ page.error = "null"
        /\ page.students = << >>
        /\ page.criteria = << >>
        /\ page.scores = << >>
        /\ dbResults = << >>

\* the start-up has ended: the listener and getSession have made their calls,
\* no fetchUserProfile is in flight, the page was not reloaded, and no request
\* failed for a reason outside the profiles table
StartupEnded ==
    /\ startup.events > 0
    /\ startup.session = "done"
    /\ startup.fetches = << >>
    /\ startup.reloads = 0
    /\ indexOp.failures = 0

\* C30: for a signed-in user without a profile row the start-up ends with
\* exactly one profile row of the user, a userProfile that is not null and no
\* auth error: the dashboard is shown
C30_StartupCreatesOneProfile ==
    StartupEnded =>
        /\ Len(RowsOfUser) = 1
        /\ index.userProfile # Null
        /\ index.authError = "null"
        /\ Shown = "dashboard"

====
